---- MODULE Spec2Model ----
(***************************************************************************)
(* Model of source/file-processor.ts (acai-file-prompt): the command-line  *)
(* tool that expands glob patterns, reads the text files among the         *)
(* matches, counts their tokens, asks for confirmation, formats the files  *)
(* and writes the result to the clipboard or to a file.                    *)
(*                                                                         *)
(* Text that the program inspects character by character (paths, the       *)
(* threshold argument, file contents, the answer typed at the prompt) is a *)
(* sequence of one-character strings.  Text that the program only          *)
(* concatenates and hands on (the formatted output) is a TLA+ string; Str  *)
(* turns the first into the second.                                        *)
(***************************************************************************)
EXTENDS Integers, Sequences, FiniteSets, TLC

\* ------------------------------------------------------------------ bounds

\* The largest number of paths one glob expansion returns.
MaxFiles == 2

\* ------------------------------------------------------- string primitives

RECURSIVE Str(_)
\* The string spelled by a sequence of characters.
Str(s) == IF s = <<>> THEN "" ELSE Head(s) \o Str(Tail(s))

\* U+0060 cannot be written inside a TLA+ string literal; this one token
\* stands for that single character wherever the source writes \`.
GRAVE == "U+0060"

UPPER == <<"A","B","C","D","E","F","G","H","I","J","K","L","M",
           "N","O","P","Q","R","S","T","U","V","W","X","Y","Z">>
LOWER == <<"a","b","c","d","e","f","g","h","i","j","k","l","m",
           "n","o","p","q","r","s","t","u","v","w","x","y","z">>

\* String.prototype.toLowerCase on one character (ASCII letters).
LowerChar(c) ==
    IF \E i \in 1..Len(UPPER) : UPPER[i] = c
    THEN LOWER[CHOOSE i \in 1..Len(UPPER) : UPPER[i] = c]
    ELSE c

\* String.prototype.toLowerCase.
toLowerCase(s) == [i \in 1..Len(s) |-> LowerChar(s[i])]

\* String.prototype.startsWith.
startsWith(s, p) == Len(s) >= Len(p) /\ SubSeq(s, 1, Len(p)) = p

\* Array.prototype.includes.
includes(seq, x) == \E i \in 1..Len(seq) : seq[i] = x

DIGITS == <<"0","1","2","3","4","5","6","7","8","9">>
IsDigit(c) == \E i \in 1..Len(DIGITS) : DIGITS[i] = c
DigitValue(c) == (CHOOSE i \in 1..Len(DIGITS) : DIGITS[i] = c) - 1
WhiteSpace == {" ", "\t", "\n", "\r", "\f"}

RECURSIVE SkipWhiteSpace(_)
SkipWhiteSpace(s) ==
    IF s # <<>> /\ Head(s) \in WhiteSpace THEN SkipWhiteSpace(Tail(s)) ELSE s

RECURSIVE DigitRun(_, _, _)
\* The value of the longest run of decimal digits s starts with, and
\* whether there is one: <<value, seen>>.
DigitRun(s, acc, seen) ==
    IF s # <<>> /\ IsDigit(Head(s))
    THEN DigitRun(Tail(s), acc * 10 + DigitValue(Head(s)), TRUE)
    ELSE <<acc, seen>>

\* A JavaScript number as far as the program uses one: an integer, or NaN.
Num(n) == [nan |-> FALSE, n |-> n]
NaN == [nan |-> TRUE, n |-> 0]

\* parseInt(s, 10): leading white space is skipped, one sign is taken, then
\* the longest run of digits; whatever follows the digits is ignored; NaN
\* when there is no digit.
parseInt(s) ==
    LET t    == SkipWhiteSpace(s)
        neg  == t # <<>> /\ Head(t) = "-"
        body == IF t # <<>> /\ Head(t) \in {"-", "+"} THEN Tail(t) ELSE t
        run  == DigitRun(body, 0, FALSE)
    IN  IF ~run[2] THEN NaN ELSE IF neg THEN Num(0 - run[1]) ELSE Num(run[1])

isNaN(v) == v.nan

\* ------------------------------------------------------------ node:path

RECURSIVE extnameScan(_, _, _)
\* The loop of path.extname (POSIX), from the last character to the first;
\* i and the indices in st count from 0, as in the library.
extnameScan(path, i, st) ==
    IF i < 0 THEN st
    ELSE LET c == path[i + 1] IN
         IF c = "/"
         THEN IF ~st.matchedSlash
              THEN [st EXCEPT !.startPart = i + 1]
              ELSE extnameScan(path, i - 1, st)
         ELSE LET s1 == IF st.end = -1
                        THEN [st EXCEPT !.matchedSlash = FALSE, !.end = i + 1]
                        ELSE st
                  s2 == IF c = "."
                        THEN IF s1.startDot = -1
                             THEN [s1 EXCEPT !.startDot = i]
                             ELSE [s1 EXCEPT !.preDotState = 1]
                        ELSE IF s1.startDot # -1
                             THEN [s1 EXCEPT !.preDotState = -1]
                             ELSE s1
              IN  extnameScan(path, i - 1, s2)

\* path.extname: the part of the last path segment from its last "." on,
\* empty when there is no ".", when the segment begins with its only ".",
\* or when the segment is "..".
extname(path) ==
    LET st == extnameScan(path, Len(path) - 1,
                          [startDot |-> -1, startPart |-> 0, end |-> -1,
                           matchedSlash |-> TRUE, preDotState |-> 0])
    IN  IF \/ st.startDot = -1
           \/ st.end = -1
           \/ st.preDotState = 0
           \/ /\ st.preDotState = 1
              /\ st.startDot = st.end - 1
              /\ st.startDot = st.startPart + 1
        THEN <<>>
        ELSE SubSeq(path, st.startDot + 1, st.end)

\* ------------------------------------------------ file-processor.ts, pure

TEXT_FILE_EXTENSIONS ==
    { ".txt", ".md", ".js", ".ts", ".tsx", ".jsx", ".json", ".yml", ".yaml",
      ".xml", ".html", ".css", ".scss", ".less", ".sh", ".bash", ".conf",
      ".cfg", ".ini", ".log", ".csv", ".java", ".py", ".pyw", ".rs", ".go",
      ".mod", ".sum", ".gradle", ".properties", ".toml", ".env" }

FormatTypes == <<"xml", "markdown", "bracket">>

\* encoding.encode(text).length.  The vocabulary of the encoder is outside
\* the repository; the model uses its byte-level floor, one token per
\* character, which keeps what the program relies on: a count that depends
\* on the content alone and is 0 for empty content.
countTokens(text) == Len(text)

\* isTextFile without toLowerCase.
isTextFile_caseSensitive(filePath) ==
    Str(extname(filePath)) \in TEXT_FILE_EXTENSIONS

isTextFile(filePath) ==
    LET ext == toLowerCase(extname(filePath))
    IN  Str(ext) \in TEXT_FILE_EXTENSIONS

\* formatOutput with the line break between the opening delimiter and the
\* content (and, for xml, the one before the last tag) left out.
formatOutput_lineBreakDropped(file, content, format) ==
    CASE format = "xml" ->
           "<file>\n<name>" \o file \o "</name>\n<content>" \o content
               \o "</content></file>"
      [] format = "markdown" ->
           "# File: " \o file \o "\n" \o GRAVE \o GRAVE \o GRAVE
               \o content \o "\n" \o GRAVE \o GRAVE \o GRAVE
      [] format = "bracket" ->
           "[file name]: " \o file \o "\n[file content begin]" \o content
               \o "\n[file content end]"

formatOutput(file, content, format) ==
    CASE format = "xml" ->
           "<file>\n<name>" \o file \o "</name>\n<content>" \o content
               \o "</content>\n</file>"
      [] format = "markdown" ->
           "# File: " \o file \o "\n" \o GRAVE \o GRAVE \o GRAVE \o "\n"
               \o content \o "\n" \o GRAVE \o GRAVE \o GRAVE
      [] format = "bracket" ->
           "[file name]: " \o file \o "\n[file content begin]\n" \o content
               \o "\n[file content end]"

RECURSIVE join(_, _)
\* Array.prototype.join.
join(strs, sep) ==
    IF strs = <<>> THEN ""
    ELSE IF Len(strs) = 1 THEN strs[1]
    ELSE strs[1] \o sep \o join(Tail(strs), sep)

RECURSIVE reduceSum(_)
\* fileInfos.reduce((sum, file) => sum + file.tokenCount, 0)
reduceSum(infos) ==
    IF infos = <<>> THEN 0 ELSE infos[1].tokenCount + reduceSum(Tail(infos))

\* The filter of lines 116-118 with >= for >.
largeFilesOf_atLeast(fileInfos, largeFileThreshold) ==
    SelectSeq(fileInfos, LAMBDA file : file.tokenCount >= largeFileThreshold)

\* Lines 116-118: fileInfos.filter((file) => file.tokenCount > largeFileThreshold)
largeFilesOf(fileInfos, largeFileThreshold) ==
    SelectSeq(fileInfos, LAMBDA file : file.tokenCount > largeFileThreshold)

\* ---------------------------------------------------- inputs of one run

Absent  == [tag |-> "absent",  value |-> <<>>]
NoValue == [tag |-> "novalue", value |-> <<>>]
Value(text) == [tag |-> "value", value |-> text]

\* What follows -f/--format on the command line.
FormatArgs ==
    { Absent, NoValue,
      Value(<<"x","m","l">>),
      Value(<<"m","a","r","k","d","o","w","n">>),
      Value(<<"b","r","a","c","k","e","t">>),
      Value(<<"j","s","o","n">>),
      Value(<<>>) }

\* What follows -t/--large-file-threshold on the command line.
ThresholdArgs ==
    { Absent, NoValue,
      Value(<<>>), Value(<<"0">>), Value(<<"-","1">>), Value(<<"a","b","c">>),
      Value(<<"2">>), Value(<<"2","x">>) }

\* The positional arguments; the patterns themselves are opaque to the tool.
PositionalArgs == { <<>>, <<"**/*">> }

ArgVectors ==
    [format : FormatArgs, threshold : ThresholdArgs, positionals : PositionalArgs]

\* Paths the pattern matcher can return.
PathUniverse ==
    { <<"a",".","t","s">>,
      <<"B",".","T","S">>,
      <<"c",".","b","i","n">>,
      <<".","e","n","v">>,
      <<"d",".","m","d","/","f">> }

\* The lists globby can resolve to: distinct paths, at most MaxFiles of them.
PathLists ==
    UNION { { l \in [1..n -> PathUniverse] :
                \A i, j \in 1..n : i # j => l[i] # l[j] } : n \in 0..MaxFiles }

\* What a file on disk can hold.
Contents == { <<>>, <<"h","i">>, <<"<","&",">">> }

\* Lines the user can type at the confirmation prompt.
Answers ==
    { <<>>, <<"y">>, <<"Y">>, <<"y","e","s">>, <<"n">>, <<"n","o">>,
      <<"m","a","y","b","e">>, <<" ","y">>, <<"y"," ">> }

\* Lines the user can type at the output-method prompt.
Choices == { "1", "2", "" }

\* Lines the user can type at the filename prompt.
Filenames == { "out.txt", "new.txt" }

NoFile == [exists |-> FALSE, data |-> ""]

\* The clipboard and the directory before the run: out.txt is there already.
InitialClipboard == "previous clipboard"
InitialFs ==
    [f \in Filenames |->
       IF f = "out.txt" THEN [exists |-> TRUE, data |-> "previous file"] ELSE NoFile]

\* ------------------------------------------------------------------ state

VARIABLES
    pc,                 \* where main is: the await it is suspended at
    argv,               \* the command line of this run
    format,             \* main: format ("" until it is validated)
    largeFileThreshold, \* main: largeFileThreshold (0 until it is validated)
    files,              \* scanFiles: files
    i,                  \* scanFiles: position of the for-of loop in files
    fileInfos,          \* scanFiles/main: fileInfos
    summary,            \* what getUserConfirmation printed
    answer,             \* getUserConfirmation: answer
    formattedContent,   \* main: formattedContent
    choice,             \* getOutputChoice: choice
    outputChoice,       \* main: outputChoice
    clipboard,          \* the system clipboard
    fs,                 \* the files writeFile can create or overwrite
    console,            \* lines written by console.log/warn/error
    io,                 \* glob expansions, reads, prompts and writes issued
    exitCode            \* the exit code of the process (-1 while it runs)

vars == << pc, argv, format, largeFileThreshold, files, i, fileInfos, summary,
           answer, formattedContent, choice, outputChoice, clipboard, fs,
           console, io, exitCode >>

NoSummary == [fileCount |-> 0, totalTokens |-> 0, roughlyK |-> 0, exceeding |-> <<>>]
NoChoice == [type |-> "none", filename |-> ""]

Line(stream, text, detail) == [stream |-> stream, text |-> text, detail |-> detail]
\* One request to the world outside the process, and whether it succeeded.
Event(op, arg, ok) == [op |-> op, arg |-> arg, ok |-> ok]

Init ==
    /\ pc = "main"
    /\ argv \in ArgVectors
    /\ format = ""
    /\ largeFileThreshold = 0
    /\ files = <<>>
    /\ i = 1
    /\ fileInfos = <<>>
    /\ summary = NoSummary
    /\ answer = <<>>
    /\ formattedContent = ""
    /\ choice = ""
    /\ outputChoice = NoChoice
    /\ clipboard = InitialClipboard
    /\ fs = InitialFs
    /\ console = <<>>
    /\ io = <<>>
    /\ exitCode = -1

\* process.exit(code), or the process running out of work (code 0).
Exit(code) == pc' = "exited" /\ exitCode' = code

\* main's catch block without the process.exit(1) of line 248: the error is
\* printed, main returns and the process ends with exit code 0.
Catch_withoutExit(err) ==
    /\ console' = Append(console, Line("stderr", "Error:", err))
    /\ Exit(0)

\* main's catch block: console.error("Error:", err); process.exit(1).
Catch(err) ==
    /\ console' = Append(console, Line("stderr", "Error:", err))
    /\ Exit(1)

\* ------------------------------------------------------------------- main

\* util.parseArgs in its default strict mode throws when a string option
\* is given without a value.
parseArgsThrows(args) ==
    args.format.tag = "novalue" \/ args.threshold.tag = "novalue"

\* JavaScript truthiness of values.<option>: undefined and "" are falsy.
Truthy(opt) == opt.tag = "value" /\ opt.value # <<>>

\* Lines 169-205: parse the command line and validate it.  parseArgs is
\* called outside main's try block, so what it throws rejects main()'s
\* promise; line 253 prints it with console.error and the process then runs
\* out of work and ends with exit code 0.
ParseAndValidate ==
    /\ pc = "main"
    /\ UNCHANGED << argv, files, i, fileInfos, summary, answer,
                    formattedContent, choice, outputChoice, clipboard, fs, io >>
    /\ IF parseArgsThrows(argv)
       THEN /\ console' = Append(console,
                   Line("stderr", "TypeError", "ERR_PARSE_ARGS_INVALID_OPTION_VALUE"))
            /\ Exit(0)
            /\ UNCHANGED << format, largeFileThreshold >>
       ELSE
       LET fmt == Str(argv.format.value)
           threshold == IF Truthy(argv.threshold)
                        THEN parseInt(argv.threshold.value)
                        ELSE Num(5000)
       IN  IF ~Truthy(argv.format) \/ ~includes(FormatTypes, fmt)
           THEN /\ console' = Append(console, Line("stderr",
                       "Invalid format. Supported formats: xml, markdown, bracket", ""))
                /\ Exit(1)
                /\ UNCHANGED << format, largeFileThreshold >>
           ELSE IF isNaN(threshold) \/ threshold.n <= 0
           THEN /\ console' = Append(console, Line("stderr",
                       "Invalid large file threshold. Must be a positive number.", ""))
                /\ Exit(1)
                /\ format' = fmt
                /\ UNCHANGED largeFileThreshold
           ELSE IF Len(argv.positionals) = 0
           THEN /\ console' = console \o
                       << Line("stderr", "Please provide at least one glob pattern", ""),
                          Line("stderr", "Usage: fileprompt -f <format> ...", "") >>
                /\ Exit(1)
                /\ format' = fmt
                /\ largeFileThreshold' = threshold.n
           ELSE /\ format' = fmt
                /\ largeFileThreshold' = threshold.n
                /\ pc' = "globby"
                /\ UNCHANGED << console, exitCode >>

\* Line 85: await globby(patterns, { gitignore: true }).  The matcher either
\* resolves to a list of paths or rejects; a rejection propagates out of
\* scanFiles to main's catch block.
Globby ==
    /\ pc = "globby"
    /\ UNCHANGED << argv, format, largeFileThreshold, i, fileInfos, summary,
                    answer, formattedContent, choice, outputChoice, clipboard,
                    fs >>
    /\ \/ \E matched \in PathLists :
             /\ io' = Append(io, Event("globby", "", TRUE))
             /\ files' = matched
             /\ pc' = "scanFiles"
             /\ UNCHANGED << console, exitCode >>
       \/ /\ io' = Append(io, Event("globby", "", FALSE))
          /\ Catch("globby rejected")
          /\ UNCHANGED files

\* ScanFile with the read wrapped in its own try/catch: a read that
\* rejects is reported and the loop goes on to the next path.
ScanFile_skipOnError ==
    /\ pc = "scanFiles"
    /\ i <= Len(files)
    /\ UNCHANGED << argv, format, largeFileThreshold, files, summary, answer,
                    formattedContent, choice, outputChoice, clipboard, fs,
                    pc, exitCode >>
    /\ LET file == files[i] IN
       /\ i' = i + 1
       /\ IF isTextFile(file)
          THEN \/ \E content \in Contents :
                    /\ io' = Append(io, Event("readFile", Str(file), TRUE))
                    /\ fileInfos' = Append(fileInfos,
                           [path |-> file, content |-> content,
                            tokenCount |-> countTokens(content)])
                    /\ UNCHANGED console
               \/ /\ io' = Append(io, Event("readFile", Str(file), FALSE))
                  /\ console' = Append(console, Line("stderr", "Error:",
                         "readFile rejected: " \o Str(file)))
                  /\ UNCHANGED fileInfos
          ELSE UNCHANGED << fileInfos, io, console >>

\* Lines 88-94: one iteration of the for-of loop of scanFiles.  A path that
\* is not a text file is passed over; a text file is read, and a read that
\* rejects propagates out of scanFiles to main's catch block.
ScanFile ==
    /\ pc = "scanFiles"
    /\ i <= Len(files)
    /\ UNCHANGED << argv, format, largeFileThreshold, files, summary, answer,
                    formattedContent, choice, outputChoice, clipboard, fs >>
    /\ LET file == files[i] IN
       IF isTextFile(file)
       THEN \/ \E content \in Contents :
                 /\ io' = Append(io, Event("readFile", Str(file), TRUE))
                 /\ fileInfos' = Append(fileInfos,
                        [path |-> file, content |-> content,
                         tokenCount |-> countTokens(content)])
                 /\ i' = i + 1
                 /\ UNCHANGED << pc, console, exitCode >>
            \/ /\ io' = Append(io, Event("readFile", Str(file), FALSE))
               /\ Catch("readFile rejected: " \o Str(file))
               /\ UNCHANGED << fileInfos, i >>
       ELSE /\ i' = i + 1
            /\ UNCHANGED << fileInfos, io, pc, console, exitCode >>

\* Math.round(totalTokens / 1000) for a total that is not negative.
roughlyK(totalTokens) == (totalTokens + 500) \div 1000

\* Lines 111-125: what getUserConfirmation prints before it asks.
summaryOf(fileCount, totalTokens, infos, threshold) ==
    [ fileCount   |-> fileCount,
      totalTokens |-> totalTokens,
      roughlyK    |-> roughlyK(totalTokens),
      exceeding   |-> [k \in 1..Len(largeFilesOf(infos, threshold)) |->
                         [path |-> largeFilesOf(infos, threshold)[k].path,
                          tokenCount |-> largeFilesOf(infos, threshold)[k].tokenCount]] ]

\* ScanReturn without the early return of lines 211-214: the warning is
\* printed and main goes on to the confirmation prompt.
ScanReturn_noEarlyReturn ==
    /\ pc = "scanFiles"
    /\ i > Len(files)
    /\ UNCHANGED << argv, format, largeFileThreshold, files, i, fileInfos,
                    answer, formattedContent, choice, outputChoice, clipboard,
                    fs, exitCode >>
    /\ LET totalTokens == reduceSum(fileInfos) IN
       /\ summary' = summaryOf(Len(fileInfos), totalTokens, fileInfos,
                               largeFileThreshold)
       /\ console' = IF Len(fileInfos) = 0
                     THEN console \o << Line("stderr",
                              "No files found matching the provided patterns", ""),
                              Line("stdout", "Found files", "") >>
                     ELSE Append(console, Line("stdout", "Found files", ""))
       /\ io' = Append(io, Event("question", "Do you want to proceed? (y/n): ", TRUE))
       /\ pc' = "getUserConfirmation"

\* Lines 96 and 211-227, up to the await at line 127: scanFiles returns;
\* with no record main warns and returns, otherwise it totals the tokens
\* and getUserConfirmation prints the summary and asks its question.
ScanReturn ==
    /\ pc = "scanFiles"
    /\ i > Len(files)
    /\ UNCHANGED << argv, format, largeFileThreshold, files, i, fileInfos,
                    answer, formattedContent, choice, outputChoice, clipboard,
                    fs >>
    /\ IF Len(fileInfos) = 0
       THEN /\ console' = Append(console, Line("stderr",
                   "No files found matching the provided patterns", ""))
            /\ Exit(0)
            /\ UNCHANGED << summary, io >>
       ELSE LET totalTokens == reduceSum(fileInfos) IN
            /\ summary' = summaryOf(Len(fileInfos), totalTokens, fileInfos,
                                    largeFileThreshold)
            /\ console' = Append(console, Line("stdout", "Found files", ""))
            /\ io' = Append(io, Event("question", "Do you want to proceed? (y/n): ", TRUE))
            /\ pc' = "getUserConfirmation"
            /\ UNCHANGED exitCode

\* Line 130 without toLowerCase.
confirmationOf_caseSensitive(typed) == startsWith(typed, <<"y">>)

\* Line 130: the value getUserConfirmation returns for the line typed.
confirmationOf(typed) == startsWith(toLowerCase(typed), <<"y">>)

\* fileInfos.map((file) => formatOutput(file.path, file.content, format))
formatAll(infos, fmt) ==
    [k \in 1..Len(infos) |-> formatOutput(Str(infos[k].path), Str(infos[k].content), fmt)]

\* Confirm without the return of line 230: the notice is printed and main
\* goes on to format and to ask for the output method.
Confirm_noReturn ==
    /\ pc = "getUserConfirmation"
    /\ UNCHANGED << argv, format, largeFileThreshold, files, i, fileInfos,
                    summary, choice, outputChoice, clipboard, fs, exitCode >>
    /\ \E typed \in Answers :
         /\ answer' = typed
         /\ console' = IF ~confirmationOf(typed)
                       THEN console \o
                              << Line("stdout", "Operation cancelled by user", ""),
                                 Line("stdout", "Choose output method:", "") >>
                       ELSE Append(console, Line("stdout", "Choose output method:", ""))
         /\ formattedContent' = join(formatAll(fileInfos, format), "\n\n")
         /\ io' = Append(io, Event("question", "Enter choice (1 or 2): ", TRUE))
         /\ pc' = "getOutputChoice"

\* Lines 127-130 and 228-239, up to the await at line 146: the answer
\* arrives; unless confirmed main prints the notice and returns, otherwise
\* it formats the records and getOutputChoice asks for the method.
Confirm ==
    /\ pc = "getUserConfirmation"
    /\ UNCHANGED << argv, format, largeFileThreshold, files, i, fileInfos,
                    summary, choice, outputChoice, clipboard, fs >>
    /\ \E typed \in Answers :
         /\ answer' = typed
         /\ IF ~confirmationOf(typed)
            THEN /\ console' = Append(console,
                        Line("stdout", "Operation cancelled by user", ""))
                 /\ Exit(0)
                 /\ UNCHANGED << formattedContent, io >>
            ELSE /\ formattedContent' = join(formatAll(fileInfos, format), "\n\n")
                 /\ console' = Append(console, Line("stdout", "Choose output method:", ""))
                 /\ io' = Append(io, Event("question", "Enter choice (1 or 2): ", TRUE))
                 /\ pc' = "getOutputChoice"
                 /\ UNCHANGED exitCode

\* Lines 148-155 with the test turned round: "2" is the file, any other
\* line the clipboard.
Choose_fileOnlyOnTwo ==
    /\ pc = "getOutputChoice"
    /\ UNCHANGED << argv, format, largeFileThreshold, files, i, fileInfos,
                    summary, answer, formattedContent, clipboard, fs, console,
                    exitCode >>
    /\ \E typed \in Choices :
         /\ choice' = typed
         /\ IF typed # "2"
            THEN /\ outputChoice' = [type |-> "clipboard", filename |-> ""]
                 /\ pc' = "output"
                 /\ UNCHANGED io
            ELSE /\ io' = Append(io, Event("question", "Enter filename: ", TRUE))
                 /\ pc' = "filename"
                 /\ UNCHANGED outputChoice

\* Lines 146-152: the choice arrives; "1" is the clipboard, any other line
\* leads to the filename question.
Choose ==
    /\ pc = "getOutputChoice"
    /\ UNCHANGED << argv, format, largeFileThreshold, files, i, fileInfos,
                    summary, answer, formattedContent, clipboard, fs, console,
                    exitCode >>
    /\ \E typed \in Choices :
         /\ choice' = typed
         /\ IF typed = "1"
            THEN /\ outputChoice' = [type |-> "clipboard", filename |-> ""]
                 /\ pc' = "output"
                 /\ UNCHANGED io
            ELSE /\ io' = Append(io, Event("question", "Enter filename: ", TRUE))
                 /\ pc' = "filename"
                 /\ UNCHANGED outputChoice

\* Lines 152-154: the filename arrives.
EnterFilename ==
    /\ pc = "filename"
    /\ UNCHANGED << argv, format, largeFileThreshold, files, i, fileInfos,
                    summary, answer, formattedContent, choice, clipboard, fs,
                    console, io, exitCode >>
    /\ \E filename \in Filenames :
         /\ outputChoice' = [type |-> "file", filename |-> filename]
         /\ pc' = "output"

\* Lines 158-161: clipboard.write resolves or rejects.
outputToClipboard(content) ==
    /\ UNCHANGED fs
    /\ \/ /\ io' = Append(io, Event("clipboard.write", "", TRUE))
          /\ clipboard' = content
          /\ console' = Append(console, Line("stdout", "Content copied to clipboard", ""))
          /\ Exit(0)
       \/ /\ io' = Append(io, Event("clipboard.write", "", FALSE))
          /\ Catch("clipboard.write rejected")
          /\ UNCHANGED clipboard

\* Lines 163-166: writeFile resolves, having replaced the file, or rejects.
outputToFile(content, filename) ==
    /\ UNCHANGED clipboard
    /\ \/ /\ io' = Append(io, Event("writeFile", filename, TRUE))
          /\ fs' = [fs EXCEPT ![filename] = [exists |-> TRUE, data |-> content]]
          /\ console' = Append(console, Line("stdout", "Content saved to", filename))
          /\ Exit(0)
       \/ /\ io' = Append(io, Event("writeFile", filename, FALSE))
          /\ Catch("writeFile rejected: " \o filename)
          /\ UNCHANGED fs

\* Lines 241-245: the chosen output is performed; main then returns.
Output ==
    /\ pc = "output"
    /\ UNCHANGED << argv, format, largeFileThreshold, files, i, fileInfos,
                    summary, answer, formattedContent, choice, outputChoice >>
    /\ IF outputChoice.type = "clipboard"
       THEN outputToClipboard(formattedContent)
       ELSE outputToFile(formattedContent, outputChoice.filename)

Next ==
    \/ ParseAndValidate
    \/ Globby
    \/ ScanFile
    \/ ScanReturn
    \/ Confirm
    \/ Choose
    \/ EnterFilename
    \/ Output

Spec == Init /\ [][Next]_vars

\* ================================================================ claims
\* What a run has done so far, read off the requests it has issued.

ConfirmQuestion == Event("question", "Do you want to proceed? (y/n): ", TRUE)
ChoiceQuestion  == Event("question", "Enter choice (1 or 2): ", TRUE)

Issued(e) == \E k \in 1..Len(io) : io[k] = e
Questions == SelectSeq(io, LAMBDA e : e.op = "question")
Reads     == SelectSeq(io, LAMBDA e : e.op = "readFile")
Writes    == SelectSeq(io, LAMBDA e : e.op \in {"clipboard.write", "writeFile"})
Printed(stream, text) ==
    \E k \in 1..Len(console) : console[k].stream = stream /\ console[k].text = text
NothingWritten == Writes = <<>> /\ clipboard = InitialClipboard /\ fs = InitialFs

\* The confirmation question has been asked and answered.
Answered == Issued(ConfirmQuestion) /\ pc # "getUserConfirmation"
\* main went past the confirmation: the output-method question was asked.
Proceeded == Issued(ChoiceQuestion)
\* scanFiles has returned its list to main.
ScanReturned ==
    /\ Issued(Event("globby", "", TRUE))
    /\ pc # "scanFiles"
    /\ i > Len(files)

\* ----------------------------------------------------------------- C1

CanonicalFormats == { <<"x","m","l">>, <<"m","a","r","k","d","o","w","n">>,
                      <<"b","r","a","c","k","e","t">> }

\* The text is a positive integer in decimal: digits only, not all of them 0.
IsPositiveIntegerText(t) ==
    /\ t # <<>>
    /\ \A k \in 1..Len(t) : IsDigit(t[k])
    /\ \E k \in 1..Len(t) : t[k] # "0"

\* The command line has one of the usage errors the specification lists.
UsageError(args) ==
    \/ args.format.tag # "value"
    \/ args.format.value \notin CanonicalFormats
    \/ /\ args.threshold.tag # "absent"
       /\ ~(args.threshold.tag = "value" /\ IsPositiveIntegerText(args.threshold.value))
    \/ args.positionals = <<>>

\* C1: a command line with a usage error (format missing, given without a
\* value or not xml/markdown/bracket; a threshold that is not a positive
\* integer; no pattern) makes the process report the error and exit with a
\* non-zero code before any glob expansion, read, prompt or write.
C1_UsageErrorExitsNonZeroBeforeIO ==
    (UsageError(argv) /\ pc # "main") =>
        /\ pc = "exited"
        /\ exitCode > 0
        /\ console # <<>>
        /\ \A k \in 1..Len(console) : console[k].stream = "stderr"
        /\ io = <<>>
        /\ NothingWritten

\* ----------------------------------------------------------------- C2

ReadFailed == \E k \in 1..Len(io) : io[k].op = "readFile" /\ ~io[k].ok

\* C2 as stated: a read that fails is reported, that file alone is skipped
\* and the run is not aborted by it: it never ends with the catch block's
\* exit code while the scan is unfinished.
C2_ReadFailureSkipsOnlyThatFile ==
    ReadFailed => ~(pc = "exited" /\ exitCode = 1 /\ i <= Len(files))

\* C2 amended: a read that fails is reported with the file's path and ends
\* the run at once with exit code 1: no later file is read, the records
\* read so far are dropped, no prompt is shown and nothing is written.
C2_ReadFailureAbortsRun ==
    \A k \in 1..Len(io) :
        (io[k].op = "readFile" /\ ~io[k].ok) =>
            /\ k = Len(io)
            /\ pc = "exited"
            /\ exitCode = 1
            /\ i <= Len(files)
            /\ io[k].arg = Str(files[i])
            /\ console = << Line("stderr", "Error:",
                                 "readFile rejected: " \o Str(files[i])) >>
            /\ Questions = <<>>
            /\ NothingWritten

\* A read failed after another file had been read successfully.
C2_Witness ==
    /\ ReadFailed
    /\ Len(fileInfos) >= 1
    /\ pc = "exited"

\* ----------------------------------------------------------------- C3

RECURSIVE TrimEnd(_)
TrimEnd(s) ==
    IF s # <<>> /\ s[Len(s)] \in WhiteSpace THEN TrimEnd(SubSeq(s, 1, Len(s) - 1)) ELSE s

\* String.prototype.trim.
Trim(s) == TrimEnd(SkipWhiteSpace(s))

BeginsWithY(s) == s # <<>> /\ s[1] \in {"y", "Y"}

\* C3 as stated: proceed is true exactly when the line typed, trimmed and
\* lower-cased, begins with "y".
C3_ProceedIffTrimmedBeginsWithY ==
    Answered => (Proceeded <=> BeginsWithY(Trim(answer)))

\* C3 amended: proceed is true exactly when the line as typed, lower-cased
\* but not trimmed, begins with "y"; a line with white space before the
\* "y", like every other line and the empty one, gives proceed = false.
C3_ProceedIffBeginsWithY ==
    Answered =>
        /\ Proceeded <=> BeginsWithY(answer)
        /\ ~Proceeded <=> Printed("stdout", "Operation cancelled by user")

C3_WitnessUpperCase == Answered /\ Proceeded /\ answer = <<"Y">>
C3_Witness == Answered /\ ~Proceeded /\ answer = <<" ", "y">>

\* ----------------------------------------------------------------- C4

\* C4: when the user does not confirm, the cancellation notice is printed,
\* the process ends with exit code 0, and nothing later happens: nothing is
\* formatted, no further question is asked, nothing is written.
C4_DeclineCancelsCleanly ==
    (Answered /\ ~BeginsWithY(answer)) =>
        /\ pc = "exited"
        /\ exitCode = 0
        /\ console[Len(console)] = Line("stdout", "Operation cancelled by user", "")
        /\ formattedContent = ""
        /\ io[Len(io)] = ConfirmQuestion
        /\ Questions = << ConfirmQuestion >>
        /\ choice = ""
        /\ outputChoice = NoChoice
        /\ NothingWritten

C4_Witness ==
    Answered /\ answer = <<"n", "o">> /\ pc = "exited" /\ Len(fileInfos) = 2

\* ----------------------------------------------------------------- C5

\* C5: when the scan returns no record (nothing matched, or only paths the
\* classifier rejects), the tool warns and ends with exit code 0, and no
\* further step runs: no question, no formatting, no write.
C5_NoRecordsWarnsAndStops ==
    (ScanReturned /\ fileInfos = <<>>) =>
        /\ pc = "exited"
        /\ exitCode = 0
        /\ console = << Line("stderr",
                             "No files found matching the provided patterns", "") >>
        /\ io = << Event("globby", "", TRUE) >>
        /\ summary = NoSummary
        /\ formattedContent = ""
        /\ NothingWritten

\* The patterns matched files, none of them a text file.
C5_Witness ==
    ScanReturned /\ fileInfos = <<>> /\ Len(files) = MaxFiles /\ pc = "exited"

C5_WitnessNothingMatched ==
    ScanReturned /\ fileInfos = <<>> /\ files = <<>> /\ pc = "exited"

\* ----------------------------------------------------------------- C6

\* C6: after the confirmation exactly one output is performed, the one the
\* user chose: "1" puts the whole blob on the clipboard and writes no file;
\* the file choice with filename F replaces F's content by the blob and
\* leaves the clipboard alone.  (A write that is refused changes nothing.)
C6_ExactlyTheChosenOutput ==
    /\ (pc # "exited") => NothingWritten
    /\ (Proceeded /\ pc = "exited") =>
          /\ Len(Writes) = 1
          /\ Writes[1] = io[Len(io)]
          /\ IF choice = "1"
             THEN /\ Writes[1].op = "clipboard.write"
                  /\ fs = InitialFs
                  /\ clipboard = IF Writes[1].ok THEN formattedContent
                                 ELSE InitialClipboard
             ELSE /\ Writes[1].op = "writeFile"
                  /\ Writes[1].arg = outputChoice.filename
                  /\ clipboard = InitialClipboard
                  /\ fs = IF Writes[1].ok
                          THEN [f \in Filenames |->
                                  IF f = outputChoice.filename
                                  THEN [exists |-> TRUE, data |-> formattedContent]
                                  ELSE InitialFs[f]]
                          ELSE InitialFs
    /\ (~Proceeded) => NothingWritten

\* A file that existed before the run was overwritten with the blob.
C6_Witness ==
    /\ Proceeded /\ pc = "exited" /\ exitCode = 0
    /\ choice = "2"
    /\ outputChoice.filename = "out.txt"
    /\ fs["out.txt"].data = formattedContent
    /\ formattedContent # InitialFs["out.txt"].data

C6_WitnessClipboard ==
    /\ Proceeded /\ pc = "exited" /\ exitCode = 0
    /\ choice = "1"
    /\ clipboard = formattedContent

\* ----------------------------------------------------------------- C7

\* The templates as the specification prints them.
TemplateXml(path, content) ==
    "<file>\n<name>" \o path \o "</name>\n<content>" \o content \o "</content>\n</file>"
TemplateMarkdown(path, content) ==
    "# File: " \o path \o "\n" \o GRAVE \o GRAVE \o GRAVE \o "\n" \o content
        \o "\n" \o GRAVE \o GRAVE \o GRAVE
TemplateBracket(path, content) ==
    "[file name]: " \o path \o "\n[file content begin]\n" \o content
        \o "\n[file content end]"

Rendered(record, fmt) ==
    IF fmt = <<"x","m","l">>
    THEN TemplateXml(Str(record.path), Str(record.content))
    ELSE IF fmt = <<"m","a","r","k","d","o","w","n">>
    THEN TemplateMarkdown(Str(record.path), Str(record.content))
    ELSE TemplateBracket(Str(record.path), Str(record.content))

RECURSIVE BlobUpTo(_, _, _)
\* The first n records rendered, a blank line between one and the next.
BlobUpTo(records, n, fmt) ==
    IF n = 0 THEN ""
    ELSE IF n = 1 THEN Rendered(records[1], fmt)
    ELSE BlobUpTo(records, n - 1, fmt) \o "\n" \o "\n" \o Rendered(records[n], fmt)

\* C7: the blob is the per-file strings, one per record in scanner order,
\* joined by one blank line; each is the template of the format given on
\* the command line with path and content put in verbatim; one format
\* serves every record.
C7_BlobIsJoinedTemplates ==
    Proceeded =>
        /\ argv.format.value \in CanonicalFormats
        /\ formattedContent = BlobUpTo(fileInfos, Len(fileInfos), argv.format.value)

\* Two records, one with content that an escaping formatter would change.
C7_Witness ==
    /\ Proceeded
    /\ Len(fileInfos) = 2
    /\ fileInfos[2].content = <<"<", "&", ">">>
    /\ format = "xml"

C7_WitnessMarkdown == Proceeded /\ Len(fileInfos) = 2 /\ format = "markdown"
C7_WitnessBracket == Proceeded /\ Len(fileInfos) = 2 /\ format = "bracket"

\* ----------------------------------------------------------------- C8

\* The last segment of a path.
LastSegment(path) ==
    LET slashes == { k \in 1..Len(path) : path[k] = "/" }
    IN  IF slashes = {} THEN path
        ELSE SubSeq(path, (CHOOSE k \in slashes : \A m \in slashes : m <= k) + 1,
                    Len(path))

\* The extension of a path: its last segment from the last "." on, a "."
\* that begins the segment not counting.
Extension(path) ==
    LET seg  == LastSegment(path)
        dots == { k \in 2..Len(seg) : seg[k] = "." }
    IN  IF dots = {} THEN <<>>
        ELSE SubSeq(seg, CHOOSE k \in dots : \A m \in dots : m <= k, Len(seg))

\* The extension is in the allow-list when letter case is ignored.
AllowedExtension(path) ==
    \E e \in TEXT_FILE_EXTENSIONS :
        \E low \in { toLowerCase(Extension(path)) } : Str(low) = e

\* C8: the records scanFiles returns are the matcher's paths restricted to
\* those whose extension, letter case ignored, is in the allow-list: one
\* record per such path, in the matcher's order; the other paths are passed
\* over silently, neither read nor reported.
C8_RecordsAreAllowListedPathsInOrder ==
    /\ (pc = "scanFiles") =>
          /\ console = <<>>
          /\ [k \in 1..Len(fileInfos) |-> fileInfos[k].path]
               = SelectSeq(SubSeq(files, 1, i - 1), AllowedExtension)
    /\ ScanReturned =>
          /\ [k \in 1..Len(fileInfos) |-> fileInfos[k].path]
               = SelectSeq(files, AllowedExtension)
          /\ [k \in 1..Len(Reads) |-> Reads[k].arg]
               = [k \in 1..Len(fileInfos) |-> Str(fileInfos[k].path)]

\* An upper-case extension was accepted and another path passed over.
C8_Witness ==
    /\ ScanReturned
    /\ Len(files) = 2
    /\ Len(fileInfos) = 1
    /\ fileInfos[1].path = <<"B", ".", "T", "S">>

\* ----------------------------------------------------------------- C9

RECURSIVE TokensUpTo(_, _)
TokensUpTo(records, n) ==
    IF n = 0 THEN 0 ELSE TokensUpTo(records, n - 1) + records[n].tokenCount

\* The threshold the command line asks for: the default when none is given.
RequestedThreshold ==
    IF argv.threshold.tag = "value" /\ argv.threshold.value # <<>>
    THEN parseInt(argv.threshold.value).n
    ELSE 5000

\* C9: the summary agrees with the records: the count is their number, the
\* total is the sum of their tokenCount, and a file is listed as exceeding
\* exactly when its tokenCount is strictly greater than the threshold.
C9_SummaryMatchesRecords ==
    Issued(ConfirmQuestion) =>
        /\ summary.fileCount = Len(fileInfos)
        /\ summary.totalTokens = TokensUpTo(fileInfos, Len(fileInfos))
        /\ \A k \in 1..Len(fileInfos) :
              (\E j \in 1..Len(summary.exceeding) :
                   summary.exceeding[j] = [path |-> fileInfos[k].path,
                                           tokenCount |-> fileInfos[k].tokenCount])
              <=> fileInfos[k].tokenCount > RequestedThreshold
        /\ Len(summary.exceeding) <= Len(fileInfos)

\* Threshold 2, one file of exactly 2 tokens (not listed) and one of 3
\* (listed).
C9_Witness ==
    /\ Issued(ConfirmQuestion)
    /\ largeFileThreshold = 2
    /\ Len(fileInfos) = 2
    /\ fileInfos[1].tokenCount = 2
    /\ fileInfos[2].tokenCount = 3
    /\ Len(summary.exceeding) = 1

\* ---------------------------------------------------------------- C10

\* C10: when glob expansion fails, or the chosen clipboard or file write
\* fails, the error is reported and the process exits with a non-zero code;
\* after a failed glob expansion no prompt is shown and nothing is written.
C10_GlobOrWriteFailureExitsNonZero ==
    \A k \in 1..Len(io) :
        (~io[k].ok /\ io[k].op \in {"globby", "clipboard.write", "writeFile"}) =>
            /\ k = Len(io)
            /\ pc = "exited"
            /\ exitCode > 0
            /\ console # <<>>
            /\ console[Len(console)].stream = "stderr"
            /\ console[Len(console)].text = "Error:"
            /\ clipboard = InitialClipboard
            /\ fs = InitialFs
            /\ (io[k].op = "globby") =>
                  /\ io = << Event("globby", "", FALSE) >>
                  /\ Len(console) = 1
                  /\ fileInfos = <<>>

C10_Witness ==
    /\ pc = "exited"
    /\ io = << Event("globby", "", FALSE) >>

C10_WitnessWrite ==
    /\ pc = "exited"
    /\ io # <<>>
    /\ io[Len(io)] = Event("writeFile", "out.txt", FALSE)

====
